---- MODULE Spec2Model ----
(***************************************************************************)
(* A model of package tfsdklog (src/tfsdklog/sdk.go): the SDK/provider     *)
(* root-logger registry kept in a context.Context, the six policy          *)
(* extension operations, and the five leveled emit operations with their   *)
(* omit-then-mask filter.                                                  *)
(*                                                                         *)
(* Strings that are searched or rewritten (messages, field keys, field     *)
(* values, literals) are sequences of one-character strings.  A regular    *)
(* expression is modelled by the fragment the package documents,           *)
(* "(foo|bar)": a sequence of non-empty literal alternatives.              *)
(***************************************************************************)
EXTENDS Integers, Sequences, FiniteSets

VARIABLES
    ctxs,           \* the context values the caller holds, in creation order
    hist,           \* hist[i]: how ctxs[i] was made (parent, operation, arguments)
                    \* and the value it had when the operation returned it
    sinkOptions,    \* the host sink's recorded *hclog.LoggerOptions (Nil: no host sink)
    sinkLevel,      \* the host sink logger's live level cell
    last,           \* the most recent call: its inputs and what it did
    pending         \* the emit call the caller is about to make (Nil: any)

vars == <<ctxs, hist, sinkOptions, sinkLevel, last, pending>>

----------------------------------------------------------------------------
(* Bounds and input domains *)

MaxCtx == 3
MaxMsgLen == 2
MaxRules == 2

\* a nil pointer or interface, and a non-nil one holding x
Nil == <<>>

Some(x) == <<x>>

Alphabet == {"a", "b", "*"}

\* the replacement written by every masking rule: "***"
MaskToken == <<"*", "*", "*">>

KeyA == <<"a">>
KeyAB == <<"a", "b">>
Keys == {KeyA, KeyAB}
\* the keys in sort.Strings order
KeyOrder == <<KeyA, KeyAB>>

ValX == <<"x">>
ValY == <<"y">>
Values == {ValX, ValY}

----------------------------------------------------------------------------
(* Sequence helpers *)

Range(s) == {s[i] : i \in 1..Len(s)}

RECURSIVE Concat(_)
Concat(ss) == IF ss = <<>> THEN <<>> ELSE Head(ss) \o Concat(Tail(ss))

RECURSIVE SeqsUpTo(_, _)
SeqsUpTo(S, n) ==
    IF n = 0 THEN {<<>>}
    ELSE LET shorter == SeqsUpTo(S, n - 1)
         IN  shorter \cup {Append(s, x) : s \in shorter, x \in S}

\* all orderings of a finite set, as sequences
RECURSIVE Perms(_)
Perms(S) ==
    IF S = {} THEN {<<>>}
    ELSE UNION {{<<x>> \o p : p \in Perms(S \ {x})} : x \in S}

----------------------------------------------------------------------------
(* Go's strings and regexp, as the filter uses them *)

\* s[i..] starts with p
HasPrefixAt(s, i, p) ==
    /\ i + Len(p) <= Len(s) + 1
    /\ \A j \in 1..Len(p) : s[i + j - 1] = p[j]

\* strings.Contains(s, substr); true for the empty substr
StringsContains(s, substr) == \E i \in 1..(Len(s) + 1) : HasPrefixAt(s, i, substr)

RECURSIVE ReplaceFrom(_, _, _)
ReplaceFrom(s, i, old) ==
    IF i > Len(s) THEN <<>>
    ELSE IF HasPrefixAt(s, i, old)
         THEN MaskToken \o ReplaceFrom(s, i + Len(old), old)
         ELSE <<s[i]>> \o ReplaceFrom(s, i + 1, old)

\* strings.ReplaceAll(s, old, "***"): the non-overlapping occurrences, leftmost
\* first; an empty old matches before every character and at the end
StringsReplaceAll(s, old) ==
    IF old = <<>>
    THEN Concat([i \in 1..Len(s) |-> MaskToken \o <<s[i]>>]) \o MaskToken
    ELSE ReplaceFrom(s, 1, old)

\* the alternatives of r that match at s[i..], in r's order
AltsAt(r, s, i) == SelectSeq(r, LAMBDA alt : HasPrefixAt(s, i, alt))

\* (*regexp.Regexp).MatchString(s): unanchored
RegexpMatchString(r, s) == \E i \in 1..(Len(s) + 1) : AltsAt(r, s, i) # <<>>

RECURSIVE RegexpReplaceFrom(_, _, _)
RegexpReplaceFrom(r, s, i) ==
    IF i > Len(s) THEN <<>>
    ELSE LET alts == AltsAt(r, s, i)
         IN  IF alts # <<>>
             THEN MaskToken \o RegexpReplaceFrom(r, s, i + Len(Head(alts)))
             ELSE <<s[i]>> \o RegexpReplaceFrom(r, s, i + 1)

\* (*regexp.Regexp).ReplaceAllString(s, "***"): leftmost match, first alternative
RegexpReplaceAllString(r, s) == RegexpReplaceFrom(r, s, 1)

----------------------------------------------------------------------------
(* internal/hclogutils: field maps and argument lists *)

\* the maps merged in call order, a later map overriding an earlier one
RECURSIVE MergeMaps(_)
MergeMaps(maps) ==
    IF maps = <<>> THEN <<>>
    ELSE LET front == MergeMaps(SubSeq(maps, 1, Len(maps) - 1))
             m == maps[Len(maps)]
         IN  [k \in (DOMAIN front) \cup (DOMAIN m) |->
                 IF k \in DOMAIN m THEN m[k] ELSE front[k]]

\* MapsToArgs(maps...): the merged map flattened to key, value, key, value, ...
\* in the order the map iteration produced (order: a permutation of its keys)
MapsToArgs(maps, order) ==
    LET merged == MergeMaps(maps)
    IN  [i \in 1..(2 * Len(order)) |->
            IF i % 2 = 1 THEN order[(i + 1) \div 2] ELSE merged[order[i \div 2]]]

\* the orders a Go map iteration over the merged maps can produce
ArgOrders(maps) == Perms(DOMAIN MergeMaps(maps))

\* ArgsToKeys(args): the elements at the key positions
ArgsToKeys(args) == {args[i] : i \in {j \in 1..Len(args) : j % 2 = 1}}

\* the value an argument list gives key k (the key occurs once)
ArgValue(args, k) ==
    args[(CHOOSE i \in 1..Len(args) : i % 2 = 1 /\ args[i] = k) + 1]

----------------------------------------------------------------------------
(* internal/logging: the PolicyStore (LoggerOpts) *)

EmptyLoggerOpts ==
    [OmitLogWithFieldKeys |-> <<>>,
     OmitLogWithMessageRegexes |-> <<>>,
     OmitLogWithMessageStrings |-> <<>>,
     MaskFieldValuesWithFieldKeys |-> <<>>,
     MaskMessageRegexes |-> <<>>,
     MaskMessageStrings |-> <<>>]

\* set union that keeps the order of first insertion
RECURSIVE AppendNew(_, _)
AppendNew(seq, items) ==
    IF items = <<>> THEN seq
    ELSE AppendNew(IF Head(items) \in Range(seq) THEN seq ELSE Append(seq, Head(items)),
                   Tail(items))

WithOmitLogWithFieldKeys(keys, lo) ==
    [lo EXCEPT !.OmitLogWithFieldKeys = AppendNew(@, keys)]

WithOmitLogWithMessageRegexes(expressions, lo) ==
    [lo EXCEPT !.OmitLogWithMessageRegexes = AppendNew(@, expressions)]

WithOmitLogWithMessageStrings(matchingStrings, lo) ==
    [lo EXCEPT !.OmitLogWithMessageStrings = AppendNew(@, matchingStrings)]

WithMaskFieldValuesWithFieldKeys(keys, lo) ==
    [lo EXCEPT !.MaskFieldValuesWithFieldKeys = AppendNew(@, keys)]

WithMaskMessageRegexes(expressions, lo) ==
    [lo EXCEPT !.MaskMessageRegexes = AppendNew(@, expressions)]

WithMaskMessageStrings(matchingStrings, lo) ==
    [lo EXCEPT !.MaskMessageStrings = AppendNew(@, matchingStrings)]

\* ShouldOmit(msg, impliedArgs, additionalArgs): field keys, then message
\* patterns, then message literals; field values are not read
ShouldOmit(lo, msg, impliedArgs, additionalArgs) ==
    \/ \E k \in Range(lo.OmitLogWithFieldKeys) :
          k \in ArgsToKeys(impliedArgs) \cup ArgsToKeys(additionalArgs)
    \/ \E r \in Range(lo.OmitLogWithMessageRegexes) : RegexpMatchString(r, msg)
    \/ \E s \in Range(lo.OmitLogWithMessageStrings) : StringsContains(msg, s)

\* step 1 of ApplyMask: the values of the transient fields whose key is masked
MaskArgs(lo, args) ==
    [i \in 1..Len(args) |->
        IF i % 2 = 0 /\ args[i - 1] \in Range(lo.MaskFieldValuesWithFieldKeys)
        THEN MaskToken ELSE args[i]]

\* step 2 of ApplyMask: every pattern in turn
RECURSIVE MaskByRegexes(_, _)
MaskByRegexes(rs, msg) ==
    IF rs = <<>> THEN msg
    ELSE MaskByRegexes(Tail(rs), RegexpReplaceAllString(Head(rs), msg))

\* step 3 of ApplyMask: every literal in turn
RECURSIVE MaskByStrings(_, _)
MaskByStrings(ss, msg) ==
    IF ss = <<>> THEN msg
    ELSE MaskByStrings(Tail(ss), StringsReplaceAll(msg, Head(ss)))

\* ApplyMask(msg, impliedArgs, additionalArgs): rewrites *msg and the transient
\* argument list in place; the permanently-bound fields are left alone
ApplyMask(lo, msg, impliedArgs, additionalArgs) ==
    [msg |-> MaskByStrings(lo.MaskMessageStrings,
                           MaskByRegexes(lo.MaskMessageRegexes, msg)),
     additionalArgs |-> MaskArgs(lo, additionalArgs)]

----------------------------------------------------------------------------
(* hclog, as the registry uses it *)

\* hclog.New(loggerOptions): a logger with a level cell of its own
HclogNew(loggerOptions) ==
    [name |-> <<loggerOptions.Name>>,
     shared |-> FALSE,
     level |-> loggerOptions.Level,
     implied |-> <<>>]

\* sink.Named(name): a copy of the host sink logger; the copy gets a level cell
\* of its own only when the sink was made with IndependentLevels
SinkNamed(name, sOpts, sLevel) ==
    [name |-> <<sOpts.Name, name>>,
     shared |-> ~sOpts.IndependentLevels,
     level |-> IF sOpts.IndependentLevels THEN sLevel ELSE "shared",
     implied |-> <<>>]

\* logger.With(key, value): a copy whose implied arguments are the old ones and
\* the new pair, one value per key (the new one wins), sorted by key
LoggerWith(logger, key, value) ==
    LET old == logger.implied
        ks == SelectSeq(KeyOrder, LAMBDA k : k \in ArgsToKeys(old) \cup {key})
    IN  [logger EXCEPT !.implied =
            [i \in 1..(2 * Len(ks)) |->
                IF i % 2 = 1 THEN ks[(i + 1) \div 2]
                ELSE IF ks[i \div 2] = key THEN value
                     ELSE ArgValue(old, ks[i \div 2])]]

\* logger.ImpliedArgs()
ImpliedArgs(logger) == logger.implied

----------------------------------------------------------------------------
(* internal/logging: the context slots *)

\* context.Background(): no slot is set
Background ==
    [sink |-> Nil, sinkOpts |-> Nil,
     sdkLogger |-> Nil, sdkOpts |-> Nil,
     providerLogger |-> Nil, providerOpts |-> Nil,
     sdkTFOpts |-> Nil]

\* a context into which the host has put its sink and the sink's options
HostContext ==
    [Background EXCEPT !.sink = Some("hostSink"), !.sinkOpts = Some("hostSinkOptions")]

GetSink(ctx) == ctx.sink

GetSDKRootLogger(ctx) == ctx.sdkLogger

\* GetSDKRootTFLoggerOpts(ctx): the empty store when the slot is not set
GetSDKRootTFLoggerOpts(ctx) ==
    IF ctx.sdkTFOpts = Nil THEN EmptyLoggerOpts ELSE ctx.sdkTFOpts[1]

SetSDKRootLogger(ctx, logger) == [ctx EXCEPT !.sdkLogger = Some(logger)]

SetSDKRootLoggerOptions(ctx, loggerOptions) ==
    [ctx EXCEPT !.sdkOpts = Some(loggerOptions)]

SetProviderRootLogger(ctx, logger) == [ctx EXCEPT !.providerLogger = Some(logger)]

SetProviderRootLoggerOptions(ctx, loggerOptions) ==
    [ctx EXCEPT !.providerOpts = Some(loggerOptions)]

SetSDKRootTFLoggerOpts(ctx, lOpts) == [ctx EXCEPT !.sdkTFOpts = Some(lOpts)]

DefaultSDKRootLoggerName == "sdk"

DefaultProviderRootLoggerName == "provider"

----------------------------------------------------------------------------
(* NewRootSDKLogger, NewRootProviderLogger, SetField *)

\* hclogutils.LoggerOptionsCopy(src): a new struct with every field of src
LoggerOptionsCopy(src) == [f \in DOMAIN src |-> src[f]]

\* The body of NewRootSDKLogger on context value ctx, the host sink's recorded
\* options being sOpts (Nil without a host sink) and its live level sLevel: the
\* returned context, and the sink's recorded options and live level afterwards.
NewRootSDKLoggerCall(ctx, options, sOpts, sLevel) ==
    LET opts == IF options.Name = ""
                THEN [options EXCEPT !.Name = DefaultSDKRootLoggerName]
                ELSE options
    IN  IF GetSink(ctx) # Nil
        THEN LET named == SinkNamed(opts.Name, sOpts[1], sLevel)
                 setLevel == opts.Level # "NoLevel"
                 logger == IF setLevel /\ ~named.shared
                           THEN [named EXCEPT !.level = opts.Level]
                           ELSE named
                 sdkLoggerOptions ==
                     [LoggerOptionsCopy(sOpts[1]) EXCEPT
                         !.Name = opts.Name,
                         !.Level = IF setLevel THEN opts.Level ELSE @]
             IN  [ctx |-> SetSDKRootLoggerOptions(SetSDKRootLogger(ctx, logger),
                                                  sdkLoggerOptions),
                  sinkOptions |-> sOpts,
                  sinkLevel |-> IF setLevel /\ named.shared THEN opts.Level ELSE sLevel]
        ELSE LET loggerOptions ==
                     [Name |-> opts.Name,
                      Level |-> IF opts.Level = "NoLevel" THEN "Trace" ELSE opts.Level,
                      JSONFormat |-> TRUE,
                      IndependentLevels |-> TRUE,
                      IncludeLocation |-> opts.IncludeLocation,
                      DisableTime |-> ~opts.IncludeTime,
                      Output |-> opts.Output,
                      AdditionalLocationOffset |-> opts.AdditionalLocationOffset]
             IN  [ctx |-> SetSDKRootLoggerOptions(
                              SetSDKRootLogger(ctx, HclogNew(loggerOptions)),
                              loggerOptions),
                  sinkOptions |-> sOpts,
                  sinkLevel |-> sLevel]

\* The body of NewRootProviderLogger, likewise.
NewRootProviderLoggerCall(ctx, options, sOpts, sLevel) ==
    LET opts == IF options.Name = ""
                THEN [options EXCEPT !.Name = DefaultProviderRootLoggerName]
                ELSE options
    IN  IF GetSink(ctx) # Nil
        THEN LET named == SinkNamed(opts.Name, sOpts[1], sLevel)
                 setLevel == opts.Level # "NoLevel"
                 logger == IF setLevel /\ ~named.shared
                           THEN [named EXCEPT !.level = opts.Level]
                           ELSE named
                 providerLoggerOptions ==
                     [LoggerOptionsCopy(sOpts[1]) EXCEPT
                         !.Name = opts.Name,
                         !.Level = IF setLevel THEN opts.Level ELSE @]
             IN  [ctx |-> SetProviderRootLoggerOptions(
                              SetProviderRootLogger(ctx, logger),
                              providerLoggerOptions),
                  sinkOptions |-> sOpts,
                  sinkLevel |-> IF setLevel /\ named.shared THEN opts.Level ELSE sLevel]
        ELSE LET loggerOptions ==
                     [Name |-> opts.Name,
                      Level |-> IF opts.Level = "NoLevel" THEN "Trace" ELSE opts.Level,
                      JSONFormat |-> TRUE,
                      IndependentLevels |-> TRUE,
                      IncludeLocation |-> opts.IncludeLocation,
                      DisableTime |-> ~opts.IncludeTime,
                      Output |-> opts.Output,
                      AdditionalLocationOffset |-> opts.AdditionalLocationOffset]
             IN  [ctx |-> SetProviderRootLoggerOptions(
                              SetProviderRootLogger(ctx, HclogNew(loggerOptions)),
                              loggerOptions),
                  sinkOptions |-> sOpts,
                  sinkLevel |-> sLevel]

\* The caller keeps the context an operation on ctxs[c] returned.
Derive(c, op, args, newctx) ==
    /\ c \in 1..Len(ctxs)
    /\ Len(ctxs) < MaxCtx
    /\ ctxs' = Append(ctxs, newctx)
    /\ hist' = Append(hist, [parent |-> c, op |-> op, args |-> args, ctx |-> newctx])
    /\ last' = [op |-> op, ctx |-> c, out |-> Len(ctxs) + 1]
    /\ UNCHANGED pending

\* NewRootSDKLogger writing the name and the level into the host sink's own
\* options instead of into a copy of them
NewRootSDKLoggerWithoutCopy(c, options) ==
    LET r == NewRootSDKLoggerCall(ctxs[c], options, sinkOptions, sinkLevel)
    IN  /\ Derive(c, "NewRootSDKLogger", options, r.ctx)
        /\ sinkOptions' = IF GetSink(ctxs[c]) # Nil THEN r.ctx.sdkOpts ELSE r.sinkOptions
        /\ sinkLevel' = r.sinkLevel

NewRootSDKLogger(c, options) ==
    LET r == NewRootSDKLoggerCall(ctxs[c], options, sinkOptions, sinkLevel)
    IN  /\ Derive(c, "NewRootSDKLogger", options, r.ctx)
        /\ sinkOptions' = r.sinkOptions
        /\ sinkLevel' = r.sinkLevel

NewRootProviderLogger(c, options) ==
    LET r == NewRootProviderLoggerCall(ctxs[c], options, sinkOptions, sinkLevel)
    IN  /\ Derive(c, "NewRootProviderLogger", options, r.ctx)
        /\ sinkOptions' = r.sinkOptions
        /\ sinkLevel' = r.sinkLevel

\* SetField(ctx, key, value): the input context itself when it has no SDK root
\* logger, else a context whose logger is logger.With(key, value)
SetField(c, key, value) ==
    LET logger == GetSDKRootLogger(ctxs[c])
    IN  /\ c \in 1..Len(ctxs)
        /\ IF logger = Nil
           THEN /\ last' = [op |-> "SetField", ctx |-> c, out |-> c]
                /\ UNCHANGED <<ctxs, hist, pending>>
           ELSE Derive(c, "SetField", <<key, value>>,
                       SetSDKRootLogger(ctxs[c], LoggerWith(logger[1], key, value)))
        /\ UNCHANGED <<sinkOptions, sinkLevel>>

----------------------------------------------------------------------------
(* Trace, Debug, Info, Warn, Error *)

\* omitOrMask deciding omission on the transient fields alone
omitOrMaskIgnoringImplied(ctx, logger, msg, additionalFields, order) ==
    LET tfLoggerOpts == GetSDKRootTFLoggerOpts(ctx)
        additionalArgs == MapsToArgs(additionalFields, order)
        impliedArgs == ImpliedArgs(logger)
    IN  IF ShouldOmit(tfLoggerOpts, msg, <<>>, additionalArgs)
        THEN [additionalArgs |-> Nil, shouldOmit |-> TRUE, msg |-> msg]
        ELSE LET masked == ApplyMask(tfLoggerOpts, msg, impliedArgs, additionalArgs)
             IN  [additionalArgs |-> masked.additionalArgs,
                  shouldOmit |-> FALSE,
                  msg |-> masked.msg]

\* omitOrMask with the two steps swapped: the mask is applied first, and the
\* omission is decided on what the mask left
omitOrMaskMaskingFirst(ctx, logger, msg, additionalFields, order) ==
    LET tfLoggerOpts == GetSDKRootTFLoggerOpts(ctx)
        additionalArgs == MapsToArgs(additionalFields, order)
        impliedArgs == ImpliedArgs(logger)
        masked == ApplyMask(tfLoggerOpts, msg, impliedArgs, additionalArgs)
    IN  IF ShouldOmit(tfLoggerOpts, masked.msg, impliedArgs, masked.additionalArgs)
        THEN [additionalArgs |-> Nil, shouldOmit |-> TRUE, msg |-> masked.msg]
        ELSE [additionalArgs |-> masked.additionalArgs,
              shouldOmit |-> FALSE,
              msg |-> masked.msg]

\* omitOrMask masking a copy of the argument list: the list it returns is the
\* one MapsToArgs made
omitOrMaskReturningUnmaskedArgs(ctx, logger, msg, additionalFields, order) ==
    LET tfLoggerOpts == GetSDKRootTFLoggerOpts(ctx)
        additionalArgs == MapsToArgs(additionalFields, order)
        impliedArgs == ImpliedArgs(logger)
    IN  IF ShouldOmit(tfLoggerOpts, msg, impliedArgs, additionalArgs)
        THEN [additionalArgs |-> Nil, shouldOmit |-> TRUE, msg |-> msg]
        ELSE LET masked == ApplyMask(tfLoggerOpts, msg, impliedArgs, additionalArgs)
             IN  [additionalArgs |-> additionalArgs,
                  shouldOmit |-> FALSE,
                  msg |-> masked.msg]

\* omitOrMask masking a copy of the message: *msg is left as it was passed
omitOrMaskKeepingMsg(ctx, logger, msg, additionalFields, order) ==
    LET tfLoggerOpts == GetSDKRootTFLoggerOpts(ctx)
        additionalArgs == MapsToArgs(additionalFields, order)
        impliedArgs == ImpliedArgs(logger)
    IN  IF ShouldOmit(tfLoggerOpts, msg, impliedArgs, additionalArgs)
        THEN [additionalArgs |-> Nil, shouldOmit |-> TRUE, msg |-> msg]
        ELSE LET masked == ApplyMask(tfLoggerOpts, msg, impliedArgs, additionalArgs)
             IN  [additionalArgs |-> masked.additionalArgs,
                  shouldOmit |-> FALSE,
                  msg |-> msg]

\* omitOrMask taking the mask rules from another role's store, which holds none
omitOrMaskWithOtherStore(ctx, logger, msg, additionalFields, order) ==
    LET tfLoggerOpts == GetSDKRootTFLoggerOpts(ctx)
        additionalArgs == MapsToArgs(additionalFields, order)
        impliedArgs == ImpliedArgs(logger)
    IN  IF ShouldOmit(tfLoggerOpts, msg, impliedArgs, additionalArgs)
        THEN [additionalArgs |-> Nil, shouldOmit |-> TRUE, msg |-> msg]
        ELSE LET masked == ApplyMask(EmptyLoggerOpts, msg, impliedArgs, additionalArgs)
             IN  [additionalArgs |-> masked.additionalArgs,
                  shouldOmit |-> FALSE,
                  msg |-> masked.msg]

\* omitOrMask(ctx, logger, &msg, additionalFields): the returned argument list
\* and omit flag, and what *msg holds afterwards
omitOrMask(ctx, logger, msg, additionalFields, order) ==
    LET tfLoggerOpts == GetSDKRootTFLoggerOpts(ctx)
        additionalArgs == MapsToArgs(additionalFields, order)
        impliedArgs == ImpliedArgs(logger)
    IN  IF ShouldOmit(tfLoggerOpts, msg, impliedArgs, additionalArgs)
        THEN [additionalArgs |-> Nil, shouldOmit |-> TRUE, msg |-> msg]
        ELSE LET masked == ApplyMask(tfLoggerOpts, msg, impliedArgs, additionalArgs)
             IN  [additionalArgs |-> masked.additionalArgs,
                  shouldOmit |-> FALSE,
                  msg |-> masked.msg]

\* The body shared by the five emit operations: what the call at `level` on
\* context value ctx does.  calls: the calls made into the underlying logger;
\* msgAfter: the function's msg variable when it returns.
EmitCall(level, c, ctx, msg, additionalFields, order) ==
    LET logger == GetSDKRootLogger(ctx)
        call == [op |-> level, ctx |-> c, msg |-> msg, fields |-> additionalFields,
                 order |-> order]
    IN  IF logger = Nil
        THEN [call |-> call, omitted |-> FALSE, msgAfter |-> msg, calls |-> <<>>]
        ELSE LET r == omitOrMask(ctx, logger[1], msg, additionalFields, order)
             IN  IF r.shouldOmit
                 THEN [call |-> call, omitted |-> TRUE, msgAfter |-> r.msg,
                       calls |-> <<>>]
                 ELSE [call |-> call, omitted |-> FALSE, msgAfter |-> r.msg,
                       calls |-> <<[logger |-> logger[1], level |-> level,
                                    msg |-> r.msg, args |-> r.additionalArgs]>>]

\* An emit call reads the context and writes nothing but the sink; order is the
\* order in which the iteration over the merged field map yields its keys.
\* Trace masking the logger's own implied arguments where they are stored
TraceMaskingImpliedArgs(c, msg, additionalFields, order) ==
    /\ c \in 1..Len(ctxs)
    /\ order \in ArgOrders(additionalFields)
    /\ pending \in {Nil, Some([msg |-> msg, fields |-> additionalFields])}
    /\ last' = [op |-> "Trace", ctx |-> c, out |-> c,
                emit |-> EmitCall("Trace", c, ctxs[c], msg, additionalFields, order)]
    /\ ctxs' = IF GetSDKRootLogger(ctxs[c]) = Nil THEN ctxs
               ELSE [ctxs EXCEPT ![c].sdkLogger[1].implied =
                        MaskArgs(GetSDKRootTFLoggerOpts(ctxs[c]), @)]
    /\ UNCHANGED <<hist, sinkOptions, sinkLevel, pending>>

Trace(c, msg, additionalFields, order) ==
    /\ c \in 1..Len(ctxs)
    /\ order \in ArgOrders(additionalFields)
    /\ pending \in {Nil, Some([msg |-> msg, fields |-> additionalFields])}
    /\ last' = [op |-> "Trace", ctx |-> c, out |-> c,
                emit |-> EmitCall("Trace", c, ctxs[c], msg, additionalFields, order)]
    /\ UNCHANGED <<ctxs, hist, sinkOptions, sinkLevel, pending>>

Debug(c, msg, additionalFields, order) ==
    /\ c \in 1..Len(ctxs)
    /\ order \in ArgOrders(additionalFields)
    /\ pending \in {Nil, Some([msg |-> msg, fields |-> additionalFields])}
    /\ last' = [op |-> "Debug", ctx |-> c, out |-> c,
                emit |-> EmitCall("Debug", c, ctxs[c], msg, additionalFields, order)]
    /\ UNCHANGED <<ctxs, hist, sinkOptions, sinkLevel, pending>>

Info(c, msg, additionalFields, order) ==
    /\ c \in 1..Len(ctxs)
    /\ order \in ArgOrders(additionalFields)
    /\ pending \in {Nil, Some([msg |-> msg, fields |-> additionalFields])}
    /\ last' = [op |-> "Info", ctx |-> c, out |-> c,
                emit |-> EmitCall("Info", c, ctxs[c], msg, additionalFields, order)]
    /\ UNCHANGED <<ctxs, hist, sinkOptions, sinkLevel, pending>>

\* Warn calling the underlying logger at the level of Error
WarnAtErrorLevel(c, msg, additionalFields, order) ==
    /\ c \in 1..Len(ctxs)
    /\ order \in ArgOrders(additionalFields)
    /\ pending \in {Nil, Some([msg |-> msg, fields |-> additionalFields])}
    /\ last' = [op |-> "Warn", ctx |-> c, out |-> c,
                emit |-> EmitCall("Error", c, ctxs[c], msg, additionalFields, order)]
    /\ UNCHANGED <<ctxs, hist, sinkOptions, sinkLevel, pending>>

Warn(c, msg, additionalFields, order) ==
    /\ c \in 1..Len(ctxs)
    /\ order \in ArgOrders(additionalFields)
    /\ pending \in {Nil, Some([msg |-> msg, fields |-> additionalFields])}
    /\ last' = [op |-> "Warn", ctx |-> c, out |-> c,
                emit |-> EmitCall("Warn", c, ctxs[c], msg, additionalFields, order)]
    /\ UNCHANGED <<ctxs, hist, sinkOptions, sinkLevel, pending>>

Error(c, msg, additionalFields, order) ==
    /\ c \in 1..Len(ctxs)
    /\ order \in ArgOrders(additionalFields)
    /\ pending \in {Nil, Some([msg |-> msg, fields |-> additionalFields])}
    /\ last' = [op |-> "Error", ctx |-> c, out |-> c,
                emit |-> EmitCall("Error", c, ctxs[c], msg, additionalFields, order)]
    /\ UNCHANGED <<ctxs, hist, sinkOptions, sinkLevel, pending>>

EmitOps == {"Trace", "Debug", "Info", "Warn", "Error"}

----------------------------------------------------------------------------
(* The six policy extension operations *)

\* OmitLogWithFieldKeys starting from an empty store instead of the context's
OmitLogWithFieldKeysFromEmpty(c, keys) ==
    /\ Derive(c, "OmitLogWithFieldKeys", keys,
              SetSDKRootTFLoggerOpts(ctxs[c],
                  WithOmitLogWithFieldKeys(keys, EmptyLoggerOpts)))
    /\ UNCHANGED <<sinkOptions, sinkLevel>>

OmitLogWithFieldKeys(c, keys) ==
    /\ LET lOpts == GetSDKRootTFLoggerOpts(ctxs[c])
       IN  Derive(c, "OmitLogWithFieldKeys", keys,
                  SetSDKRootTFLoggerOpts(ctxs[c], WithOmitLogWithFieldKeys(keys, lOpts)))
    /\ UNCHANGED <<sinkOptions, sinkLevel>>

OmitLogWithMessageRegexes(c, expressions) ==
    /\ LET lOpts == GetSDKRootTFLoggerOpts(ctxs[c])
       IN  Derive(c, "OmitLogWithMessageRegexes", expressions,
                  SetSDKRootTFLoggerOpts(ctxs[c],
                      WithOmitLogWithMessageRegexes(expressions, lOpts)))
    /\ UNCHANGED <<sinkOptions, sinkLevel>>

OmitLogWithMessageStrings(c, matchingStrings) ==
    /\ LET lOpts == GetSDKRootTFLoggerOpts(ctxs[c])
       IN  Derive(c, "OmitLogWithMessageStrings", matchingStrings,
                  SetSDKRootTFLoggerOpts(ctxs[c],
                      WithOmitLogWithMessageStrings(matchingStrings, lOpts)))
    /\ UNCHANGED <<sinkOptions, sinkLevel>>

MaskFieldValuesWithFieldKeys(c, keys) ==
    /\ LET lOpts == GetSDKRootTFLoggerOpts(ctxs[c])
       IN  Derive(c, "MaskFieldValuesWithFieldKeys", keys,
                  SetSDKRootTFLoggerOpts(ctxs[c],
                      WithMaskFieldValuesWithFieldKeys(keys, lOpts)))
    /\ UNCHANGED <<sinkOptions, sinkLevel>>

MaskMessageRegexes(c, expressions) ==
    /\ LET lOpts == GetSDKRootTFLoggerOpts(ctxs[c])
       IN  Derive(c, "MaskMessageRegexes", expressions,
                  SetSDKRootTFLoggerOpts(ctxs[c],
                      WithMaskMessageRegexes(expressions, lOpts)))
    /\ UNCHANGED <<sinkOptions, sinkLevel>>

\* MaskMessageStrings writing the extended store into the context it was given
\* as well as into the one it returns
MaskMessageStringsInPlace(c, matchingStrings) ==
    /\ c \in 1..Len(ctxs)
    /\ Len(ctxs) < MaxCtx
    /\ LET lOpts == GetSDKRootTFLoggerOpts(ctxs[c])
           newctx == SetSDKRootTFLoggerOpts(ctxs[c],
                         WithMaskMessageStrings(matchingStrings, lOpts))
       IN  /\ ctxs' = Append([ctxs EXCEPT ![c] = newctx], newctx)
           /\ hist' = Append(hist, [parent |-> c, op |-> "MaskMessageStrings",
                                    args |-> matchingStrings, ctx |-> newctx])
    /\ last' = [op |-> "MaskMessageStrings", ctx |-> c, out |-> Len(ctxs) + 1]
    /\ UNCHANGED <<pending, sinkOptions, sinkLevel>>

MaskMessageStrings(c, matchingStrings) ==
    /\ LET lOpts == GetSDKRootTFLoggerOpts(ctxs[c])
       IN  Derive(c, "MaskMessageStrings", matchingStrings,
                  SetSDKRootTFLoggerOpts(ctxs[c],
                      WithMaskMessageStrings(matchingStrings, lOpts)))
    /\ UNCHANGED <<sinkOptions, sinkLevel>>

ExtensionOps ==
    {"OmitLogWithFieldKeys", "OmitLogWithMessageRegexes", "OmitLogWithMessageStrings",
     "MaskFieldValuesWithFieldKeys", "MaskMessageRegexes", "MaskMessageStrings"}

----------------------------------------------------------------------------
(* Inputs *)

\* logging.ApplyLoggerOpts(options...): no option given, and every option given
DefaultOptions ==
    [Name |-> "", Level |-> "NoLevel", IncludeLocation |-> TRUE, IncludeTime |-> TRUE,
     Output |-> "stderr", AdditionalLocationOffset |-> 0]

CustomOptions ==
    [Name |-> "custom", Level |-> "Warn", IncludeLocation |-> FALSE,
     IncludeTime |-> FALSE, Output |-> "buffer", AdditionalLocationOffset |-> 1]

OptionInputs == {DefaultOptions, CustomOptions}

\* the options a host recorded for its sink, with and without IndependentLevels
HostSinkOptions(independent) ==
    [Name |-> "", Level |-> "Info", JSONFormat |-> TRUE,
     IndependentLevels |-> independent, IncludeLocation |-> TRUE,
     DisableTime |-> FALSE, Output |-> "stderr", AdditionalLocationOffset |-> 0]

\* "(a|b)", "(ab)" and "(ab|b)"
RegexAorB == <<(<<"a">>), (<<"b">>)>>
RegexAB == <<(<<"a", "b">>)>>
RegexABorB == <<(<<"a", "b">>), (<<"b">>)>>

LitA == <<"a">>
LitAB == <<"a", "b">>
LitStar == <<"*">>

\* the rules the stores of SpecEmit are made of
KeyRules == {KeyA}
RegexRules == {RegexABorB}
StringRules == {LitA, LitStar}

\* the argument lists of the extension calls of Spec
KeyArgs == {<<KeyA>>, <<KeyAB, KeyA>>}
StringArgs == {<<LitA>>, <<LitStar, LitAB>>}

FieldsA == [k \in {KeyA} |-> ValX]
FieldsAY == [k \in {KeyA} |-> ValY]
FieldsAB == [k \in {KeyAB} |-> ValX]
FieldsBoth == [k \in Keys |-> IF k = KeyA THEN ValX ELSE ValY]

\* the additionalFields of an emit call: none, one map, two maps sharing a key
FieldLists == {<<>>, <<FieldsAB>>, <<FieldsBoth>>, <<FieldsA, FieldsAY>>}

Msgs == SeqsUpTo(Alphabet, MaxMsgLen)

\* the emit calls of Spec
CallMsgs == {<<"b", "a">>}
CallFieldLists == {<<FieldsA>>}

\* the positions a held context can have
CtxIds == 1..MaxCtx

\* every order a map iteration can take
Orders == Perms(Keys) \cup SeqsUpTo(Keys, 1)

----------------------------------------------------------------------------
(* The registry and the operations on it *)

InitHist(ctx) == <<[parent |-> 0, op |-> "init", args |-> <<>>, ctx |-> ctx]>>

\* a context that reaches the caller with a PolicyStore already in it
ExtendedContext ==
    SetSDKRootTFLoggerOpts(Background,
        WithMaskFieldValuesWithFieldKeys(<<KeyA>>, EmptyLoggerOpts))

Init ==
    /\ \/ /\ ctxs \in {<<Background>>, <<ExtendedContext>>}
          /\ sinkOptions = Nil
          /\ sinkLevel = "NoLevel"
       \/ \E independent \in BOOLEAN :
             /\ ctxs = <<HostContext>>
             /\ sinkOptions = Some(HostSinkOptions(independent))
             /\ sinkLevel = "Info"
    /\ hist = InitHist(ctxs[1])
    /\ last = [op |-> "init", ctx |-> 0, out |-> 1]
    /\ pending = Nil

Next ==
    \/ \E c \in CtxIds, options \in OptionInputs : NewRootSDKLogger(c, options)
    \/ \E c \in CtxIds, options \in OptionInputs : NewRootProviderLogger(c, options)
    \/ \E c \in CtxIds : SetField(c, KeyA, ValX)
    \/ \E c \in CtxIds, keys \in KeyArgs : OmitLogWithFieldKeys(c, keys)
    \/ \E c \in CtxIds : OmitLogWithMessageRegexes(c, <<RegexAorB>>)
    \/ \E c \in CtxIds : OmitLogWithMessageStrings(c, <<LitA>>)
    \/ \E c \in CtxIds : MaskFieldValuesWithFieldKeys(c, <<KeyA>>)
    \/ \E c \in CtxIds : MaskMessageRegexes(c, <<RegexAB>>)
    \/ \E c \in CtxIds, matchingStrings \in StringArgs :
          MaskMessageStrings(c, matchingStrings)
    \/ \E c \in CtxIds, msg \in CallMsgs, fields \in CallFieldLists, order \in Orders :
          Trace(c, msg, fields, order)
    \/ \E c \in CtxIds, msg \in CallMsgs, fields \in CallFieldLists, order \in Orders :
          Debug(c, msg, fields, order)
    \/ \E c \in CtxIds, msg \in CallMsgs, fields \in CallFieldLists, order \in Orders :
          Info(c, msg, fields, order)
    \/ \E c \in CtxIds, msg \in CallMsgs, fields \in CallFieldLists, order \in Orders :
          Warn(c, msg, fields, order)
    \/ \E c \in CtxIds, msg \in CallMsgs, fields \in CallFieldLists, order \in Orders :
          Error(c, msg, fields, order)

Spec == Init /\ [][Next]_vars

----------------------------------------------------------------------------
(* The emit operations alone, on every context of a bounded family *)

NoDuplicates(s) == \A i, j \in 1..Len(s) : s[i] = s[j] => i = j

RuleSeqs(S) == {s \in SeqsUpTo(S, MaxRules) : NoDuplicates(s)}

StoreSize(lo) ==
    Len(lo.OmitLogWithFieldKeys) + Len(lo.OmitLogWithMessageRegexes)
        + Len(lo.OmitLogWithMessageStrings) + Len(lo.MaskFieldValuesWithFieldKeys)
        + Len(lo.MaskMessageRegexes) + Len(lo.MaskMessageStrings)

\* the stores that extension calls adding at most MaxRules rules build
EmitStores ==
    {lo \in [OmitLogWithFieldKeys : RuleSeqs(KeyRules),
             OmitLogWithMessageRegexes : RuleSeqs(RegexRules),
             OmitLogWithMessageStrings : RuleSeqs(StringRules),
             MaskFieldValuesWithFieldKeys : RuleSeqs(KeyRules),
             MaskMessageRegexes : RuleSeqs(RegexRules),
             MaskMessageStrings : RuleSeqs(StringRules)] :
        StoreSize(lo) <= MaxRules}

\* a standalone SDK root logger, bare and with one permanently-bound field
StandaloneLogger ==
    NewRootSDKLoggerCall(Background, DefaultOptions, Nil, "NoLevel").ctx.sdkLogger[1]

EmitLoggers == {StandaloneLogger, LoggerWith(StandaloneLogger, KeyA, ValX)}

EmitContexts ==
    {Background}
        \cup {SetSDKRootTFLoggerOpts(SetSDKRootLogger(Background, logger), lo) :
                 logger \in EmitLoggers, lo \in EmitStores}

InitEmit ==
    /\ \E ctx \in EmitContexts : ctxs = <<ctx>>
    /\ hist = InitHist(ctxs[1])
    /\ sinkOptions = Nil
    /\ sinkLevel = "NoLevel"
    /\ last = [op |-> "init", ctx |-> 0, out |-> 1]
    /\ \E msg \in Msgs, fields \in FieldLists : pending = Some([msg |-> msg, fields |-> fields])

NextEmit ==
    \/ \E order \in Orders : Trace(1, pending[1].msg, pending[1].fields, order)
    \/ \E order \in Orders : Debug(1, pending[1].msg, pending[1].fields, order)
    \/ \E order \in Orders : Info(1, pending[1].msg, pending[1].fields, order)
    \/ \E order \in Orders : Warn(1, pending[1].msg, pending[1].fields, order)
    \/ \E order \in Orders : Error(1, pending[1].msg, pending[1].fields, order)

SpecEmit == InitEmit /\ [][NextEmit]_vars

----------------------------------------------------------------------------
(* What the most recent call shows *)

IsEmit == last.op \in EmitOps

\* the context the most recent call was made on
CallCtx == ctxs[last.ctx]

HasLogger == CallCtx.sdkLogger # Nil

\* the PolicyStore the call read
CallStore == GetSDKRootTFLoggerOpts(CallCtx)

\* the call made one call into the underlying logger
Forwarded == IsEmit /\ Len(last.emit.calls) = 1

\* the keys of the logger's permanently-bound fields and of the call's maps
PermanentKeys == ArgsToKeys(CallCtx.sdkLogger[1].implied)

TransientKeys == UNION {DOMAIN m : m \in Range(last.emit.call.fields)}

\* s occurs in msg
Occurs(s, msg) ==
    \E i \in 1..(Len(msg) - Len(s) + 1) : \A j \in 1..Len(s) : msg[i + j - 1] = s[j]

\* one of the three omission conditions holds of the call as it was made
OmitCondition ==
    \/ \E k \in PermanentKeys \cup TransientKeys :
          \E j \in 1..Len(CallStore.OmitLogWithFieldKeys) :
             CallStore.OmitLogWithFieldKeys[j] = k
    \/ \E r \in Range(CallStore.OmitLogWithMessageRegexes) :
          \E alt \in Range(r) : Occurs(alt, last.emit.call.msg)
    \/ \E s \in Range(CallStore.OmitLogWithMessageStrings) :
          Occurs(s, last.emit.call.msg)

----------------------------------------------------------------------------
(* C1: an emit call on a context with an SDK root logger is withheld from   *)
(* the sink exactly when a key of the logger's permanently-bound fields or  *)
(* of the call's fields equals an omit key, or the message matches an omit  *)
(* pattern, or the message contains an omit literal; field values play no   *)
(* part.                                                                    *)
C1_OmittedIffRuleMatches ==
    (IsEmit /\ HasLogger) => (last.emit.calls = <<>> <=> OmitCondition)

\* an entry withheld for a permanently-bound key alone: no transient field,
\* no message rule
C1_Witness ==
    /\ IsEmit /\ HasLogger
    /\ last.emit.calls = <<>>
    /\ last.emit.call.fields = <<>>
    /\ PermanentKeys # {}
    /\ CallStore.OmitLogWithMessageRegexes = <<>>
    /\ CallStore.OmitLogWithMessageStrings = <<>>

(* C2: omission is decided before masking: an entry an omission rule        *)
(* targets produces no emission, masked or not, and the mask is not applied *)
(* to it (the call's message is as it was passed).                          *)
C2_OmissionBeforeMasking ==
    (IsEmit /\ HasLogger /\ OmitCondition) =>
        /\ last.emit.calls = <<>>
        /\ last.emit.omitted
        /\ last.emit.msgAfter = last.emit.call.msg

\* an omitted entry that the store's masking rules would have rewritten
C2_Witness ==
    /\ IsEmit /\ HasLogger
    /\ last.emit.omitted
    /\ last.emit.calls = <<>>
    /\ CallStore.OmitLogWithFieldKeys # <<>>
    /\ CallStore.MaskMessageStrings # <<>>
    /\ ApplyMask(CallStore, last.emit.call.msg, <<>>, <<>>).msg # last.emit.call.msg

----------------------------------------------------------------------------
(* What a forwarded entry carries *)

ForwardedMsg == last.emit.calls[1].msg

ForwardedArgs == last.emit.calls[1].args

\* the value the call's maps give key k: that of the last map holding k
EffectiveValue(k) ==
    LET fields == last.emit.call.fields
        i == CHOOSE n \in 1..Len(fields) :
                 /\ k \in DOMAIN fields[n]
                 /\ \A m \in (n + 1)..Len(fields) : k \notin DOMAIN fields[m]
    IN  fields[i][k]

KeyPositions(args) == {i \in 1..Len(args) : i % 2 = 1}

(* C5: field-key masking replaces only the value: the forwarded fields have *)
(* the keys of the call's fields, each once; a field whose key is a mask    *)
(* key carries "***", every other field the value the call gave it.         *)
C5_FieldKeyMaskingReplacesOnlyValue ==
    Forwarded =>
        /\ Len(ForwardedArgs) = 2 * Cardinality(TransientKeys)
        /\ {ForwardedArgs[i] : i \in KeyPositions(ForwardedArgs)} = TransientKeys
        /\ \A i \in KeyPositions(ForwardedArgs) :
              ForwardedArgs[i + 1] =
                  IF \E j \in 1..Len(CallStore.MaskFieldValuesWithFieldKeys) :
                        CallStore.MaskFieldValuesWithFieldKeys[j] = ForwardedArgs[i]
                  THEN <<"*", "*", "*">>
                  ELSE EffectiveValue(ForwardedArgs[i])

\* a forwarded entry with a masked field and an unmasked sibling
C5_Witness ==
    /\ Forwarded
    /\ last.emit.call.fields = <<FieldsBoth>>
    /\ CallStore.MaskFieldValuesWithFieldKeys = <<KeyA>>
    /\ ArgValue(ForwardedArgs, KeyA) = <<"*", "*", "*">>
    /\ ArgValue(ForwardedArgs, KeyAB) = ValY

----------------------------------------------------------------------------
(* The messages a rule may leave: every way of replacing non-overlapping    *)
(* matches of the rule so that no match is left untouched                   *)

\* the spans <<start, length>> of in that an alternative of the rule matches
Spans(in, alts) ==
    {sp \in (1..Len(in)) \X {Len(alts[n]) : n \in 1..Len(alts)} :
        \E n \in 1..Len(alts) :
            /\ Len(alts[n]) = sp[2]
            /\ sp[1] + sp[2] <= Len(in) + 1
            /\ \A j \in 1..sp[2] : in[sp[1] + j - 1] = alts[n][j]}

Apart(sp, sq) == sp[1] + sp[2] <= sq[1] \/ sq[1] + sq[2] <= sp[1]

RECURSIVE Subst(_, _, _)
Subst(in, i, chosen) ==
    IF i > Len(in) THEN <<>>
    ELSE IF \E sp \in chosen : sp[1] = i
         THEN LET sp == CHOOSE sq \in chosen : sq[1] = i
              IN  <<"*", "*", "*">> \o Subst(in, i + sp[2], chosen)
         ELSE <<in[i]>> \o Subst(in, i + 1, chosen)

Replacements(in, alts) ==
    {Subst(in, 1, chosen) : chosen \in
        {Q \in SUBSET Spans(in, alts) :
            /\ \A sp, sq \in Q : sp = sq \/ Apart(sp, sq)
            /\ \A sp \in Spans(in, alts) : \E sq \in Q : ~Apart(sp, sq)}}

RECURSIVE ReplacementsAll(_, _)
ReplacementsAll(msgs, rules) ==
    IF rules = <<>> THEN msgs
    ELSE ReplacementsAll(UNION {Replacements(m, Head(rules)) : m \in msgs}, Tail(rules))

\* the mask rules of the store the call read: the patterns, then the literals
CallMaskRules ==
    CallStore.MaskMessageRegexes
        \o [i \in 1..Len(CallStore.MaskMessageStrings) |->
               <<CallStore.MaskMessageStrings[i]>>]

StarFree(s) == s # <<>> /\ \A i \in 1..Len(s) : s[i] # "*"

(* C6: message masking replaces every non-overlapping occurrence: the       *)
(* forwarded message is the call's message with, rule after rule, the       *)
(* non-overlapping matches of the rule replaced by "***" and none left      *)
(* over; no occurrence of a mask literal or pattern made of original text   *)
(* survives.                                                                *)
C6_MessageMaskingReplacesEveryOccurrence ==
    Forwarded =>
        /\ ForwardedMsg \in ReplacementsAll({last.emit.call.msg}, CallMaskRules)
        /\ \A n \in 1..Len(CallMaskRules) : \A a \in 1..Len(CallMaskRules[n]) :
              StarFree(CallMaskRules[n][a]) => ~Occurs(CallMaskRules[n][a], ForwardedMsg)

\* a message with two occurrences of a masked literal, forwarded with both
\* replaced
C6_Witness ==
    /\ Forwarded
    /\ CallStore.MaskMessageStrings = <<LitA>>
    /\ CallStore.MaskMessageRegexes = <<>>
    /\ last.emit.call.msg = <<"a", "a">>
    /\ ForwardedMsg = <<"*", "*", "*", "*", "*", "*">>

----------------------------------------------------------------------------
(* C7: an emit call makes zero or one call into the underlying logger:      *)
(* none without an SDK root logger in the context, none when the filter     *)
(* omits the entry, and otherwise exactly one, at the operation's own       *)
(* level, on that logger, carrying the whole entry.                         *)
C7_ZeroOrOneCall ==
    IsEmit =>
        /\ Len(last.emit.calls) <= 1
        /\ ~HasLogger => (last.emit.calls = <<>> /\ ~last.emit.omitted)
        /\ last.emit.omitted => last.emit.calls = <<>>
        /\ (HasLogger /\ ~last.emit.omitted) =>
              /\ Len(last.emit.calls) = 1
              /\ last.emit.calls[1].level = last.op
              /\ last.emit.calls[1].logger = CallCtx.sdkLogger[1]
              /\ last.emit.calls[1].msg = last.emit.msgAfter
              /\ Len(last.emit.calls[1].args) = 2 * Cardinality(TransientKeys)

\* a Warn call on a context that holds no SDK root logger
C7_Witness ==
    /\ last.op = "Warn"
    /\ ~HasLogger
    /\ last.emit.calls = <<>>

----------------------------------------------------------------------------
\* the mask applied once more to what was forwarded changes nothing
RemaskingChangesNothing ==
    ApplyMask(CallStore, ForwardedMsg, CallCtx.sdkLogger[1].implied, ForwardedArgs)
        = [msg |-> ForwardedMsg, additionalArgs |-> ForwardedArgs]

\* no mask literal and no alternative of a mask pattern is empty or holds "*"
StarFreeMaskRules ==
    \A n \in 1..Len(CallMaskRules) : \A a \in 1..Len(CallMaskRules[n]) :
        StarFree(CallMaskRules[n][a])

(* C10 as stated: masking is idempotent for every store, message and field  *)
(* list.                                                                    *)
C10_MaskingIdempotent == Forwarded => RemaskingChangesNothing

(* C10 amended: masking is idempotent when no mask literal and no           *)
(* alternative of a mask pattern is empty or contains "*".                  *)
C10_MaskingIdempotentOnStarFreeRules ==
    (Forwarded /\ StarFreeMaskRules) => RemaskingChangesNothing

\* a forwarded entry whose message and a field value star-free rules rewrote
C10_Witness ==
    /\ Forwarded /\ StarFreeMaskRules
    /\ CallMaskRules # <<>>
    /\ CallStore.MaskFieldValuesWithFieldKeys # <<>>
    /\ ForwardedMsg # last.emit.call.msg
    /\ ForwardedArgs # MapsToArgs(last.emit.call.fields, last.emit.call.order)

----------------------------------------------------------------------------
(* What the held contexts show *)

Held == 1..Len(ctxs)

\* the PolicyStore of held context i
StoreOf(i) == GetSDKRootTFLoggerOpts(ctxs[i])

MadeByExtension(i) == hist[i].op \in ExtensionOps

\* held context i is what it was when its operation returned it
AsReturned(i) == ctxs[i] = hist[i].ctx

(* C3: two extension calls made from the same starting context: the         *)
(* starting context is what it was before the calls, each returned context  *)
(* holds the rules it added, and no rule of a returned context's store      *)
(* comes from the other call: each is a rule of the starting context's      *)
(* store or one the context's own call added.                               *)
C3_ForkedExtensionsIsolated ==
    \A i, j \in Held :
        (i # j /\ MadeByExtension(i) /\ MadeByExtension(j)
             /\ hist[i].parent = hist[j].parent) =>
            /\ AsReturned(hist[i].parent)
            /\ AsReturned(i)
            /\ \A n \in 1..Len(hist[i].args) :
                  \E m \in 1..Len(StoreOf(i)[hist[i].op]) :
                      StoreOf(i)[hist[i].op][m] = hist[i].args[n]
            /\ \A f \in ExtensionOps : \A m \in 1..Len(StoreOf(i)[f]) :
                  \/ \E n \in 1..Len(StoreOf(hist[i].parent)[f]) :
                        StoreOf(hist[i].parent)[f][n] = StoreOf(i)[f][m]
                  \/ /\ f = hist[i].op
                     /\ \E n \in 1..Len(hist[i].args) :
                           hist[i].args[n] = StoreOf(i)[f][m]

\* a fork from a context that already carries a store, the two calls adding
\* different rules
C3_Witness ==
    \E i, j \in Held :
        /\ i # j /\ MadeByExtension(i) /\ MadeByExtension(j)
        /\ hist[i].parent = hist[j].parent
        /\ hist[i].op = "MaskMessageStrings"
        /\ <<hist[i].op, hist[i].args>> # <<hist[j].op, hist[j].args>>
        /\ StoreOf(hist[i].parent) # EmptyLoggerOpts
        /\ StoreOf(i) # StoreOf(j)

----------------------------------------------------------------------------
\* the rules of category f the calls on the chain down to context i added, and
\* those the chain's first context came with
RECURSIVE ChainRules(_, _)
ChainRules(i, f) ==
    IF hist[i].parent = 0
    THEN {GetSDKRootTFLoggerOpts(hist[i].ctx)[f][n] :
             n \in 1..Len(GetSDKRootTFLoggerOpts(hist[i].ctx)[f])}
    ELSE ChainRules(hist[i].parent, f)
            \cup (IF hist[i].op = f
                  THEN {hist[i].args[n] : n \in 1..Len(hist[i].args)}
                  ELSE {})

\* the store the extension op with arguments args makes of store lo
Extended(op, args, lo) ==
    CASE op = "OmitLogWithFieldKeys" -> WithOmitLogWithFieldKeys(args, lo)
      [] op = "OmitLogWithMessageRegexes" -> WithOmitLogWithMessageRegexes(args, lo)
      [] op = "OmitLogWithMessageStrings" -> WithOmitLogWithMessageStrings(args, lo)
      [] op = "MaskFieldValuesWithFieldKeys" -> WithMaskFieldValuesWithFieldKeys(args, lo)
      [] op = "MaskMessageRegexes" -> WithMaskMessageRegexes(args, lo)
      [] op = "MaskMessageStrings" -> WithMaskMessageStrings(args, lo)

(* C4: policy extension is additive along a chain: the store of every held  *)
(* context holds, in each category, exactly the rules its chain started     *)
(* with and the rules the calls of the chain added, each once; and two      *)
(* chained calls of distinct categories leave the store the same two calls  *)
(* in the other order leave.                                                *)
C4_ExtensionAdditive ==
    \A i \in Held :
        /\ \A f \in ExtensionOps :
              /\ {StoreOf(i)[f][n] : n \in 1..Len(StoreOf(i)[f])} = ChainRules(i, f)
              /\ Len(StoreOf(i)[f]) = Cardinality(ChainRules(i, f))
        /\ MadeByExtension(i) =>
              /\ ctxs[i].sdkTFOpts # Nil
              /\ \A f \in ExtensionOps :
                    SubSeq(StoreOf(i)[f], 1, Len(StoreOf(hist[i].parent)[f]))
                        = StoreOf(hist[i].parent)[f]
        /\ (MadeByExtension(i) /\ hist[i].parent # 0
                /\ MadeByExtension(hist[i].parent)
                /\ hist[i].op # hist[hist[i].parent].op) =>
              StoreOf(i) =
                  Extended(hist[hist[i].parent].op, hist[hist[i].parent].args,
                      Extended(hist[i].op, hist[i].args,
                          StoreOf(hist[hist[i].parent].parent)))

\* a chain of two calls of distinct categories from a context without a store,
\* the first of them OmitLogWithFieldKeys
C4_Witness ==
    \E i \in Held :
        /\ MadeByExtension(i)
        /\ hist[i].parent # 0
        /\ hist[hist[i].parent].op = "OmitLogWithFieldKeys"
        /\ hist[i].op = "MaskFieldValuesWithFieldKeys"
        /\ hist[hist[i].parent].parent = 1
        /\ ctxs[1].sdkTFOpts = Nil
        /\ StoreOf(i).OmitLogWithFieldKeys # <<>>
        /\ StoreOf(i).MaskFieldValuesWithFieldKeys # <<>>

----------------------------------------------------------------------------
MadeByNewRoot(i) == hist[i].op \in {"NewRootSDKLogger", "NewRootProviderLogger"}

\* the slots NewRootSDKLogger and NewRootProviderLogger write
RoleSlots(op) ==
    IF op = "NewRootSDKLogger" THEN {"sdkLogger", "sdkOpts"}
    ELSE {"providerLogger", "providerOpts"}

\* the options held context i carries for the role of the call that made it
StoredOptions(i) ==
    IF hist[i].op = "NewRootSDKLogger" THEN ctxs[i].sdkOpts ELSE ctxs[i].providerOpts

RoleLogger(i) ==
    IF hist[i].op = "NewRootSDKLogger" THEN ctxs[i].sdkLogger ELSE ctxs[i].providerLogger

RoleName(i) ==
    IF hist[i].args.Name # "" THEN hist[i].args.Name
    ELSE IF hist[i].op = "NewRootSDKLogger" THEN "sdk" ELSE "provider"

(* C8: NewRootSDKLogger and NewRootProviderLogger do not mutate what they   *)
(* were given: the input context is what it was, the returned context       *)
(* differs from it in the role's logger and options only, the host sink's   *)
(* recorded options are the ones the host recorded, and with a host sink    *)
(* the stored options equal them except for the name and, when the caller   *)
(* gave a level, the level.                                                 *)
C8_NewRootLeavesInputsAlone ==
    /\ sinkOptions # Nil =>
          \E independent \in BOOLEAN : sinkOptions[1] = HostSinkOptions(independent)
    /\ \A i \in Held : MadeByNewRoot(i) =>
          /\ AsReturned(hist[i].parent)
          /\ \A slot \in DOMAIN ctxs[i] \ RoleSlots(hist[i].op) :
                ctxs[i][slot] = ctxs[hist[i].parent][slot]
          /\ RoleLogger(i) # Nil
          /\ StoredOptions(i) # Nil
          /\ StoredOptions(i)[1].Name = RoleName(i)
          /\ ctxs[hist[i].parent].sink # Nil =>
                /\ \A f \in DOMAIN sinkOptions[1] \ {"Name", "Level"} :
                      StoredOptions(i)[1][f] = sinkOptions[1][f]
                /\ StoredOptions(i)[1].Level =
                      IF hist[i].args.Level = "NoLevel" THEN sinkOptions[1].Level
                      ELSE hist[i].args.Level

\* NewRootSDKLogger with a name and a level on a context with a host sink
C8_Witness ==
    \E i \in Held :
        /\ hist[i].op = "NewRootSDKLogger"
        /\ ctxs[hist[i].parent].sink # Nil
        /\ hist[i].args = CustomOptions
        /\ StoredOptions(i)[1].Level = "Warn"
        /\ sinkOptions[1].Level = "Info"
        /\ ctxs[hist[i].parent].sdkLogger = Nil

----------------------------------------------------------------------------
====
